---- MODULE Spec2Model ----
(***************************************************************************)
(* A model of climpred/utils.py: the time normaliser (convert_time_index), *)
(* the metric and comparison resolvers, the lead-offset table, the lag     *)
(* alignment (reduce_time_series), the provenance step (assign_attrs) and  *)
(* copy_coords_from_to.  Every call is one action: it draws the caller's   *)
(* arguments from small sets, runs the function as the source runs it and  *)
(* records the arguments as the caller held them before the call (arg),    *)
(* the same objects as the caller holds them after the call (post) and     *)
(* what the call returned or raised (ret).                                 *)
(***************************************************************************)
EXTENDS Integers, Sequences, FiniteSets, TLC

VARIABLES op, arg, post, ret

vars == <<op, arg, post, ret>>

\* Longest time axis the model draws.
MaxLen == 2

(***************************************************************************)
(* Python values used below.  A text whose characters matter (it is split  *)
(* or parsed) is a sequence of one-character strings.                      *)
(***************************************************************************)
DigitChars == <<"0", "1", "2", "3", "4", "5", "6", "7", "8", "9">>

RECURSIVE Digits(_)
\* str(n) for n >= 0
Digits(n) ==
    IF n < 10 THEN <<DigitChars[n + 1]>>
    ELSE Digits(n \div 10) \o <<DigitChars[(n % 10) + 1]>>

\* str(n) for a Python int
PyStr(n) == IF n < 0 THEN <<"-">> \o Digits(-n) ELSE Digits(n)

RECURSIVE ZFill(_, _)
\* the zero padding of strftime-like formatting
ZFill(s, w) == IF Len(s) >= w THEN s ELSE ZFill(<<"0">> \o s, w)

\* int(t) for a float held as a count of tenths: truncation toward zero
FloatToInt(tenths) ==
    IF tenths < 0 THEN -((-tenths) \div 10) ELSE tenths \div 10

RECURSIVE PySplit(_, _)
\* s.split(sep) for a one-character separator
PySplit(s, sep) ==
    IF \A i \in 1..Len(s) : s[i] /= sep THEN <<s>>
    ELSE LET k == CHOOSE i \in 1..Len(s) :
                      s[i] = sep /\ \A j \in 1..(i - 1) : s[j] /= sep
         IN  <<SubSeq(s, 1, k - 1)>> \o PySplit(SubSeq(s, k + 1, Len(s)), sep)

DigitValue(c) == CHOOSE v \in 0..9 : DigitChars[v + 1] = c

IsDigit(c) == \E v \in 0..9 : DigitChars[v + 1] = c

\* int(s) accepts a text of digits only here: the pieces hold no sign
PyIntOk(s) == Len(s) > 0 /\ \A i \in 1..Len(s) : IsDigit(s[i])

RECURSIVE PyInt(_)
PyInt(s) ==
    IF Len(s) = 0 THEN 0
    ELSE 10 * PyInt(SubSeq(s, 1, Len(s) - 1)) + DigitValue(s[Len(s)])

(***************************************************************************)
(* The proleptic Gregorian calendar of cftime.                             *)
(***************************************************************************)
IsLeap(y) == (y % 4 = 0) /\ ((y % 100 /= 0) \/ (y % 400 = 0))

DaysInMonth(y, m) ==
    IF m = 2 THEN (IF IsLeap(y) THEN 29 ELSE 28)
    ELSE IF m \in {4, 6, 9, 11} THEN 30 ELSE 31

\* cftime.DatetimeProlepticGregorian(y, m, d) accepts the date
ValidDate(y, m, d) ==
    /\ y /= 0
    /\ m \in 1..12
    /\ d >= 1
    /\ d <= DaysInMonth(y, m)

CFDate(y, m, d) ==
    [cal |-> "proleptic_gregorian", y |-> y, m |-> m, d |-> d, hh |-> 0]

(***************************************************************************)
(* convert_time_index(xobj, time_string, kind)                             *)
(***************************************************************************)
\* str(t) of a pandas Timestamp: 'YYYY-MM-DD HH:00:00'
TimestampStr(t) ==
    ZFill(Digits(t.y), 4) \o <<"-">> \o ZFill(Digits(t.m), 2) \o <<"-">>
        \o ZFill(Digits(t.d), 2) \o <<" ">> \o ZFill(Digits(t.hh), 2)
        \o <<":", "0", "0", ":", "0", "0">>

\* split_dates of the DatetimeIndex branch
SplitDatetime(vals) ==
    [i \in 1..Len(vals) |-> PySplit(PySplit(TimestampStr(vals[i]), " ")[1], "-")]

\* split_dates of the numeric branch: str(int(t)) + '-01-01', split at '-'
SplitNumeric(years) ==
    [i \in 1..Len(years) |->
        PySplit(PyStr(years[i]) \o <<"-", "0", "1", "-", "0", "1">>, "-")]

\* int(t) of every entry of a numeric axis
AxisInts(axis) ==
    [i \in 1..Len(axis.vals) |->
        IF axis.kind = "float" THEN FloatToInt(axis.vals[i]) ELSE axis.vals[i]]

\* the list comprehension building cftime_dates: unpacking (y, m, d), int()
\* of each piece and the cftime constructor can each raise
DatesBuildable(split) ==
    \A i \in 1..Len(split) :
        /\ Len(split[i]) = 3
        /\ \A j \in 1..3 : PyIntOk(split[i][j])
        /\ ValidDate(PyInt(split[i][1]), PyInt(split[i][2]), PyInt(split[i][3]))

BuildDates(split) ==
    [i \in 1..Len(split) |->
        CFDate(PyInt(split[i][1]), PyInt(split[i][2]), PyInt(split[i][3]))]

ConvertFrom(xobj, split, nwarn) ==
    IF DatesBuildable(split)
    THEN [status |-> "ok", caller |-> xobj, warnings |-> nwarn,
          value |-> [xobj EXCEPT !.axis = [kind |-> "cftime",
                                            vals |-> BuildDates(split)]]]
    ELSE [status |-> "ValueError", caller |-> xobj, warnings |-> nwarn,
          value |-> xobj]

\* faulty variant: the isinstance test is lost and a calendar-aware axis is re-encoded
convert_time_index_reencode(xobj) ==
    IF xobj.axis.kind \in {"cftime", "datetime"}
    THEN ConvertFrom(xobj, SplitDatetime(xobj.axis.vals), 0)
    ELSE IF xobj.axis.kind \in {"float", "int"}
    THEN ConvertFrom(xobj, SplitNumeric(AxisInts(xobj.axis)), 1)
    ELSE [status |-> "ValueError", caller |-> xobj, warnings |-> 0,
          value |-> xobj]

\* The function works on xobj.copy(): the caller's container is what it was.
convert_time_index(xobj) ==
    IF xobj.axis.kind = "cftime"
    THEN [status |-> "ok", caller |-> xobj, warnings |-> 0, value |-> xobj]
    ELSE IF xobj.axis.kind = "datetime"
    THEN ConvertFrom(xobj, SplitDatetime(xobj.axis.vals), 0)
    ELSE IF xobj.axis.kind \in {"float", "int"}
    THEN ConvertFrom(xobj, SplitNumeric(AxisInts(xobj.axis)), 1)
    ELSE [status |-> "ValueError", caller |-> xobj, warnings |-> 0,
          value |-> xobj]

(***************************************************************************)
(* Inputs of convert_time_index.  Year 0 is left out: whether cftime       *)
(* accepts it depends on the cftime release.                               *)
(***************************************************************************)
SeqsUpTo(S, n) == UNION {[1..k -> S] : k \in 1..n}

IntYears == {-1, 7, 1955, 1956}

FloatYears == {-15, 19550, 19567}

Timestamps ==
    {[y |-> 2000, m |-> 2, d |-> 29, hh |-> 0],
     [y |-> 1999, m |-> 12, d |-> 31, hh |-> 12],
     [y |-> 2001, m |-> 1, d |-> 1, hh |-> 0]}

CFTimes ==
    {[cal |-> "proleptic_gregorian", y |-> 1955, m |-> 1, d |-> 1, hh |-> 0],
     [cal |-> "proleptic_gregorian", y |-> 1955, m |-> 6, d |-> 15, hh |-> 12],
     [cal |-> "noleap", y |-> 7, m |-> 2, d |-> 28, hh |-> 0]}

AxisKinds == {"int", "float", "datetime", "cftime", "object"}

AxisVals(kind) ==
    CASE kind = "int" -> SeqsUpTo(IntYears, MaxLen)
      [] kind = "float" -> SeqsUpTo(FloatYears, MaxLen)
      [] kind = "datetime" -> SeqsUpTo(Timestamps, MaxLen)
      [] kind = "cftime" -> SeqsUpTo(CFTimes, MaxLen)
      [] OTHER -> {<<"a">>}

(***************************************************************************)
(* The metric and comparison registries.  A Python value handed to a       *)
(* resolver is [kind, name]: kind "str" is a string, "metric" a Metric     *)
(* instance, "comparison" a Comparison instance, "other" any other object  *)
(* (an int, None).                                                         *)
(***************************************************************************)
Str(n) == [kind |-> "str", name |-> n]

\* the attributes '__<name>' the metrics module defines
MetricsModule == {"mse", "mae", "pearson_r"}

\* the attributes '__<name>' the comparisons module defines
ComparisonsModule == {"m2c", "e2c", "m2m"}

\* METRIC_ALIASES.get(name, name)
METRIC_ALIASES(name) ==
    CASE name = "pr" -> "pearson_r"
      [] name = "pearsonr" -> "pearson_r"
      [] OTHER -> name

\* is_in_list(item, list_, kind): raises KeyError 'Specify <kind> from ...'
is_in_list(item, list_, kind) ==
    IF item \in list_
    THEN [status |-> "ok", stage |-> "membership", msg |-> "", value |-> item]
    ELSE [status |-> "KeyError", stage |-> "membership",
          msg |-> "Specify " \o kind \o " from", value |-> item]

\* getattr(module, '__' + name)
GetAttr(module, kind, name) ==
    IF name \in module
    THEN [status |-> "ok", stage |-> "lookup", msg |-> "",
          value |-> [kind |-> kind, name |-> name]]
    ELSE [status |-> "AttributeError", stage |-> "lookup", msg |-> "",
          value |-> Str(name)]

\* faulty variant: the alias table and the module are consulted before the list
get_metric_class_lookup_first(metric, list_) ==
    IF metric.kind = "metric"
    THEN [status |-> "ok", stage |-> "instance", msg |-> "", value |-> metric]
    ELSE IF metric.kind = "str"
    THEN LET found == GetAttr(MetricsModule, "metric",
                              METRIC_ALIASES(metric.name))
         IN  IF found.status /= "ok" THEN found
             ELSE IF is_in_list(metric, list_, "metric").status /= "ok"
             THEN is_in_list(metric, list_, "metric")
             ELSE found
    ELSE [status |-> "ValueError", stage |-> "type",
          msg |-> "Please provide metric as str or Metric class",
          value |-> metric]

get_metric_class(metric, list_) ==
    IF metric.kind = "metric"
    THEN [status |-> "ok", stage |-> "instance", msg |-> "", value |-> metric]
    ELSE IF metric.kind = "str"
    THEN IF is_in_list(metric, list_, "metric").status /= "ok"
         THEN is_in_list(metric, list_, "metric")
         ELSE GetAttr(MetricsModule, "metric", METRIC_ALIASES(metric.name))
    ELSE [status |-> "ValueError", stage |-> "type",
          msg |-> "Please provide metric as str or Metric class",
          value |-> metric]

\* Everything that is no Comparison instance goes to the membership test;
\* '__' + comparison raises TypeError when comparison is no string.
get_comparison_class(comparison, list_) ==
    IF comparison.kind = "comparison"
    THEN [status |-> "ok", stage |-> "instance", msg |-> "",
          value |-> comparison]
    ELSE IF is_in_list(comparison, list_, "comparison").status /= "ok"
    THEN is_in_list(comparison, list_, "comparison")
    ELSE IF comparison.kind /= "str"
    THEN [status |-> "TypeError", stage |-> "lookup", msg |-> "",
          value |-> comparison]
    ELSE GetAttr(ComparisonsModule, "comparison", comparison.name)

\* Inputs of the resolvers.
Descriptors ==
    {[kind |-> "metric", name |-> "custom_metric"],
     [kind |-> "comparison", name |-> "custom_comparison"]}

OtherObjects == {[kind |-> "other", name |-> "5"], [kind |-> "other", name |-> "None"]}

MetricArgs ==
    {Str(n) : n \in {"mse", "pr", "pearson_r", "AnomCorr", "test", "None", "ghost"}}
        \cup Descriptors \cup OtherObjects

ComparisonArgs ==
    {Str(n) : n \in {"m2c", "e2c", "ensemblemean", "test", "None", "ghost"}}
        \cup Descriptors \cup OtherObjects

MetricLists ==
    SUBSET ({Str(n) : n \in {"mse", "pr", "pearson_r", "ghost"}}
                \cup {[kind |-> "other", name |-> "5"]})

ComparisonLists ==
    SUBSET ({Str(n) : n \in {"m2c", "e2c", "ghost"}}
                \cup {[kind |-> "other", name |-> "5"]})

(***************************************************************************)
(* get_lead_cftime_shift_args(units, lead)                                 *)
(***************************************************************************)
Offset(n, freq) == [status |-> "ok", n |-> n, freq |-> freq]

\* faulty variant: a week is taken to be five days
get_lead_cftime_shift_args_week5(units, lead) ==
    CASE units = "years" -> Offset(lead, "YS")
      [] units = "months" -> Offset(lead, "MS")
      [] units = "weeks" -> Offset(lead * 5, "D")
      [] units = "days" -> Offset(lead, "D")
      [] units = "seasons" -> Offset(lead * 3, "MS")
      [] units = "pentads" -> Offset(lead * 5, "D")
      [] OTHER -> [status |-> "ValueError", n |-> 0, freq |-> ""]

get_lead_cftime_shift_args(units, lead) ==
    CASE units = "years" -> Offset(lead, "YS")
      [] units = "months" -> Offset(lead, "MS")
      [] units = "weeks" -> Offset(lead * 7, "D")
      [] units = "days" -> Offset(lead, "D")
      [] units = "seasons" -> Offset(lead * 3, "MS")
      [] units = "pentads" -> Offset(lead * 5, "D")
      [] OTHER -> [status |-> "ValueError", n |-> 0, freq |-> ""]

(***************************************************************************)
(* Dates <<y, m, d>> of one calendar and CFTimeIndex.shift(n, freq) on     *)
(* dates that lie on the offset: year starts for 'YS', month starts for    *)
(* 'MS', any date for 'D' (the source assumes that alignment, "Currently   *)
(* assumes yearly aligns with year start").                                *)
(***************************************************************************)
DateLE(a, b) ==
    \/ a[1] < b[1]
    \/ (a[1] = b[1] /\ a[2] < b[2])
    \/ (a[1] = b[1] /\ a[2] = b[2] /\ a[3] <= b[3])

NextDay(t) ==
    IF t[3] < DaysInMonth(t[1], t[2]) THEN <<t[1], t[2], t[3] + 1>>
    ELSE IF t[2] < 12 THEN <<t[1], t[2] + 1, 1>>
    ELSE <<t[1] + 1, 1, 1>>

PrevDay(t) ==
    IF t[3] > 1 THEN <<t[1], t[2], t[3] - 1>>
    ELSE IF t[2] > 1 THEN <<t[1], t[2] - 1, DaysInMonth(t[1], t[2] - 1)>>
    ELSE <<t[1] - 1, 12, 31>>

RECURSIVE AddDays(_, _)
AddDays(t, n) ==
    IF n = 0 THEN t
    ELSE IF n > 0 THEN AddDays(NextDay(t), n - 1)
    ELSE AddDays(PrevDay(t), n + 1)

AddMonths(t, n) ==
    LET total == t[1] * 12 + (t[2] - 1) + n
    IN  <<total \div 12, (total % 12) + 1, 1>>

Shift(t, n, freq) ==
    CASE freq = "YS" -> <<t[1] + n, 1, 1>>
      [] freq = "MS" -> AddMonths(t, n)
      [] OTHER -> AddDays(t, n)

MaxDate(S) == CHOOSE t \in S : \A u \in S : DateLE(u, t)

MinDate(S) == CHOOSE t \in S : \A u \in S : DateLE(t, u)

Range(seq) == {seq[i] : i \in 1..Len(seq)}

(***************************************************************************)
(* reduce_time_series(forecast, reference, nlags).  A container is its     *)
(* time axis (the data follow the axis under where(..., drop=True)) and,   *)
(* for the forecast, the units attribute of its lead axis.                 *)
(***************************************************************************)
KeepGE(seq, lo) == SelectSeq(seq, LAMBDA t : DateLE(lo, t))

\* faulty variant: the upper bound itself is dropped
KeepLE_strict(seq, hi) == SelectSeq(seq, LAMBDA t : DateLE(t, hi) /\ t /= hi)

KeepLE(seq, hi) == SelectSeq(seq, LAMBDA t : DateLE(t, hi))

\* imin, line 191
WindowLower(forecast, reference) ==
    MaxDate({MinDate(Range(forecast.time)), MinDate(Range(reference.time))})

\* faulty variant: the shifted reference does not bound the forecast
WindowUpper_noshift(forecast, ref_dates) == MaxDate(Range(forecast.time))

\* imax, line 192
WindowUpper(forecast, ref_dates) ==
    MinDate({MaxDate(Range(forecast.time)), MaxDate(Range(ref_dates))})

\* faulty variant: the reference is cut from above like the forecast
ReduceWindow_symmetric(forecast, reference, ref_dates) ==
    LET imin == WindowLower(forecast, reference)
        imax == WindowUpper(forecast, ref_dates)
    IN  [status |-> "ok",
         forecast |-> [forecast EXCEPT
                          !.time = KeepGE(KeepLE(forecast.time, imax), imin)],
         reference |-> [reference EXCEPT
                          !.time = KeepLE(KeepGE(reference.time, imin), imax)],
         caller_forecast |-> forecast,
         caller_reference |-> reference]

\* lines 191-197: the window and the three where(..., drop=True) calls, each
\* of which returns a new container
ReduceWindow(forecast, reference, ref_dates) ==
    LET imin == WindowLower(forecast, reference)
        imax == WindowUpper(forecast, ref_dates)
    IN  [status |-> "ok",
         forecast |-> [forecast EXCEPT
                          !.time = KeepGE(KeepLE(forecast.time, imax), imin)],
         reference |-> [reference EXCEPT
                          !.time = KeepGE(reference.time, imin)],
         caller_forecast |-> forecast,
         caller_reference |-> reference]

reduce_time_series(forecast, reference, nlags) ==
    LET offset_args_tuple == get_lead_cftime_shift_args(forecast.units, nlags)
        shift_n == offset_args_tuple.n * (-1)
        shift_str == offset_args_tuple.freq
        ref_dates == [i \in 1..Len(reference.time) |->
                         Shift(reference.time[i], shift_n, shift_str)]
    IN  IF offset_args_tuple.status /= "ok"
        THEN [status |-> "ValueError", forecast |-> forecast,
              reference |-> reference, caller_forecast |-> forecast,
              caller_reference |-> reference]
        ELSE ReduceWindow(forecast, reference, ref_dates)

\* Inputs of the lag alignment: time axes on the grid of the lead units.
MaxLag == 2

PoolSize == 4

LeadUnits == {"years", "months", "weeks", "days", "seasons", "pentads", "hours"}

GridBase(units) ==
    CASE units = "months" -> <<2000, 11, 1>>
      [] units = "seasons" -> <<2000, 6, 1>>
      [] units = "weeks" -> <<2000, 2, 15>>
      [] units = "days" -> <<2000, 2, 27>>
      [] units = "pentads" -> <<2000, 2, 20>>
      [] OTHER -> <<2000, 1, 1>>

\* the offset of k steps of the lead units (a year for unknown units)
GridStep(units, k) ==
    IF get_lead_cftime_shift_args(units, k).status = "ok"
    THEN get_lead_cftime_shift_args(units, k)
    ELSE Offset(k, "YS")

Advance(t, units, k) == Shift(t, GridStep(units, k).n, GridStep(units, k).freq)

GridPool(units) == {Advance(GridBase(units), units, k) : k \in 0..(PoolSize - 1)}

TimeAxes(units) ==
    {s \in SeqsUpTo(GridPool(units), MaxLen) :
        \A i, j \in 1..Len(s) : i /= j => s[i] /= s[j]}

(***************************************************************************)
(* assign_attrs(skill, ds, function_name, metadata_dict, metric,           *)
(* comparison, dim).  A dict is a function from its keys to values         *)
(* [kind, s, n]: a string, an int or None.  An argument that may be None   *)
(* carries isnone.                                                         *)
(***************************************************************************)
S(text) == [kind |-> "str", s |-> text, n |-> 0]

I(num) == [kind |-> "int", s |-> "", n |-> num]

PyNone == [kind |-> "none", s |-> "", n |-> 0]

EmptyDict == [k \in {} |-> PyNone]

\* d[k] = v
Put(d, k, v) == [x \in DOMAIN d \cup {k} |-> IF x = k THEN v ELSE d[x]]

\* d.update(e)
Update(d, e) ==
    [x \in DOMAIN d \cup DOMAIN e |-> IF x \in DOMAIN e THEN e[x] ELSE d[x]]

\* del d[k] for every k of ks
DelAll(d, ks) == [x \in DOMAIN d \ ks |-> d[x]]

RECURSIVE NumText(_)
\* the text an f-string gives a non-negative int
NumText(n) ==
    IF n < 10 THEN DigitChars[n + 1]
    ELSE NumText(n \div 10) \o DigitChars[(n % 10) + 1]

\* p = int(p) if int(p) == p else p, then its text; the exponent is held
\* as a count of halves
PowerText(p2) ==
    IF p2 % 2 = 0 THEN NumText(p2 \div 2) ELSE NumText(p2 \div 2) \o ".5"

\* the text an f-string gives an attribute value
ValText(v) ==
    IF v.kind = "str" THEN v.s ELSE IF v.kind = "int" THEN NumText(v.n)
    ELSE "None"

\* lines 223-234: skill.attrs = ds.attrs stores a copy of the mapping (the
\* attrs setter of the array library builds a new dict), so the writes that
\* follow go to the skill's own dict
AttrsAfterInfo(ds, function_name) ==
    LET a0 == Put(ds.attrs, "prediction_skill",
                  S("calculated by climpred https://climpred.readthedocs.io/"))
        a1 == Put(a0, "skill_calculated_by_function", S(function_name))
        a2 == IF "init" \in DOMAIN ds.coords
              THEN Put(a1, "number_of_initializations", I(ds.coords["init"]))
              ELSE a1
    IN  IF "member" \in DOMAIN ds.coords
        THEN Put(a2, "number_of_members", I(ds.coords["member"]))
        ELSE a2

\* faulty variant: the unit is rewritten from exponent 1 on
AttrsAfterUnits_from1(a, metric, comparison, dim) ==
    LET a3 == Put(Put(Put(a, "metric", S(metric.name)),
                      "comparison", S(comparison.name)), "dim", dim)
        a4 == IF metric.p2 = 0 THEN Put(a3, "units", S("None")) ELSE a3
    IN  IF metric.p2 >= 2 /\ "units" \in DOMAIN a4
        THEN Put(a4, "units",
                 S("(" \o ValText(a4["units"]) \o ")^" \o PowerText(metric.p2)))
        ELSE a4

\* lines 236-246
AttrsAfterUnits(a, metric, comparison, dim) ==
    LET a3 == Put(Put(Put(a, "metric", S(metric.name)),
                      "comparison", S(comparison.name)), "dim", dim)
        a4 == IF metric.p2 = 0 THEN Put(a3, "units", S("None")) ELSE a3
    IN  IF metric.p2 >= 4 /\ "units" \in DOMAIN a4
        THEN Put(a4, "units",
                 S("(" \o ValText(a4["units"]) \o ")^" \o PowerText(metric.p2)))
        ELSE a4

\* lines 249-254: the keys deleted from the caller's metadata_dict
del_list(md) == {k \in DOMAIN md : md[k].kind = "none" /\ k /= "units"}

\* metadata_dict after lines 249-254: the entries are deleted from the dict
\* the caller passed, which is also the dict line 259 reads
MetadataAfterDelete(md) == DelAll(md, del_list(md))

\* faulty variant: the clock is read once, when the module is loaded
Created_stale(now) == S("2020-01-01 00:00:00")

\* lines 261-263: datetime.datetime.now() formatted and cut to the second
Created(now) == S(now)

assign_attrs(skill, ds, function_name, metadata_dict, metric, comparison, dim, now) ==
    LET info == AttrsAfterInfo(ds, function_name)
        failed(a, md) ==
            [status |-> "AttributeError", value |-> [skill EXCEPT !.attrs = a],
             caller_skill |-> [skill EXCEPT !.attrs = a],
             caller_ds |-> ds, caller_metadata |-> md]
    IN  IF metric.isnone \/ comparison.isnone
        THEN failed(IF metric.isnone THEN info
                    ELSE Put(info, "metric", S(metric.name)), metadata_dict)
        ELSE LET units == AttrsAfterUnits(info, metric, comparison, dim)
             IN  IF metadata_dict.isnone
                 THEN failed(units, metadata_dict)
                 ELSE LET kept == MetadataAfterDelete(metadata_dict.d)
                          final == Put(Update(units, kept), "created", Created(now))
                      IN  [status |-> "ok",
                           value |-> [skill EXCEPT !.attrs = final],
                           caller_skill |-> [skill EXCEPT !.attrs = final],
                           caller_ds |-> ds,
                           caller_metadata |->
                               [metadata_dict EXCEPT !.d = kept]]

\* Inputs of assign_attrs.
Dict(d) == [isnone |-> FALSE, d |-> d]

NoneDict == [isnone |-> TRUE, d |-> EmptyDict]

DsAttrs ==
    {EmptyDict, [units |-> S("degC")], [units |-> S("degC"), title |-> S("tos")]}

DsCoords ==
    {EmptyDict, [init |-> 2], [init |-> 2, member |-> 3]}

MetadataDicts ==
    {NoneDict, Dict(EmptyDict), Dict([note |-> PyNone]),
     Dict([units |-> PyNone]), Dict([units |-> S("K"), note |-> PyNone]),
     Dict([alpha |-> S("0.05")])}

Metrics ==
    {[isnone |-> TRUE, name |-> "", p2 |-> 0]}
        \cup {[isnone |-> FALSE, name |-> "m", p2 |-> p] : p \in {0, 1, 2, 4, 5, 6}}

Comparisons ==
    {[isnone |-> TRUE, name |-> ""], [isnone |-> FALSE, name |-> "m2c"]}

\* what datetime.datetime.now() can give, as 'YYYY-MM-DD HH:MM:SS'
Clock == {"2020-01-01 00:00:00", "2020-01-01 00:00:01"}

(***************************************************************************)
(* copy_coords_from_to(xro_from, xro_to).  A container is its type and its *)
(* coordinates.                                                            *)
(***************************************************************************)
\* xro_to[c] = xro_from[c] writes into the caller's DataArray and returns
\* it; assign_coords returns a new Dataset.
copy_coords_from_to(xro_from, xro_to) ==
    LET new == [xro_to EXCEPT
                   !.coords = Update(xro_to.coords, xro_from.coords)]
    IN  IF xro_from.type = "DataArray" /\ xro_to.type = "DataArray"
        THEN [status |-> "ok", value |-> new, caller_from |-> xro_from,
              caller_to |-> new]
        ELSE IF xro_from.type = "Dataset" /\ xro_to.type = "Dataset"
        THEN [status |-> "ok", value |-> new, caller_from |-> xro_from,
              caller_to |-> xro_to]
        ELSE [status |-> "ValueError", value |-> xro_to,
              caller_from |-> xro_from, caller_to |-> xro_to]

XrTypes == {"DataArray", "Dataset", "ndarray"}

CoordSets ==
    {EmptyDict, [lead |-> S("1..3")], [lead |-> S("0..2"), init |-> S("i")]}

(***************************************************************************)
(* The compute engine as the specification describes it (sections 4.2 and *)
(* 4.4).  A forecast is its init and lead labels and                       *)
(* data[init][member][lead]; a skill value is a fraction [num, den], and   *)
(* den = 0 is the undefined value.                                         *)
(***************************************************************************)
PM_METRICS == {Str("mse"), Str("mae")}

PM_COMPARISONS == {Str("m2c"), Str("e2c")}

Abs(x) == IF x < 0 THEN -x ELSE x

\* the distance a metric sums
Dist(metric, x, y) == IF metric = "mse" THEN (x - y) * (x - y) ELSE Abs(x - y)

RECURSIVE SumOver(_, _)
SumOver(f, D) ==
    IF D = {} THEN 0
    ELSE LET x == CHOOSE y \in D : TRUE IN f[x] + SumOver(f, D \ {x})

SkillEq(a, b) == a.den > 0 /\ b.den > 0 /\ a.num * b.den = b.num * a.den

\* m2c: every other member against the control member (the first); e2c: the
\* sum of the other members against the control member times their number
PerfectModelSkill(forecast, metric, comparison) ==
    LET inits == 1..Len(forecast.init)
        others == 2..Len(forecast.data[1])
        n == Len(forecast.data[1]) - 1
    IN  [k \in 1..Len(forecast.lead) |->
            IF comparison = "m2c"
            THEN [num |-> SumOver(
                      [i \in inits |-> SumOver(
                          [m \in others |->
                              Dist(metric, forecast.data[i][m][k],
                                   forecast.data[i][1][k])], others)], inits),
                  den |-> Len(forecast.init) * n]
            ELSE [num |-> SumOver(
                      [i \in inits |->
                          Dist(metric,
                               SumOver([m \in others |-> forecast.data[i][m][k]],
                                       others),
                               n * forecast.data[i][1][k])], inits),
                  den |-> Len(forecast.init)
                              * (IF metric = "mse" THEN n * n ELSE n)]]

\* section 4.4, steps 1 to 4 in the perfect-model framework
compute_perfect_model(forecast, metric, comparison) ==
    LET m == get_metric_class(metric, PM_METRICS)
        c == get_comparison_class(comparison, PM_COMPARISONS)
    IN  IF m.status /= "ok"
        THEN [status |-> m.status, msg |-> m.msg, skill |-> <<>>]
        ELSE IF c.status /= "ok"
        THEN [status |-> c.status, msg |-> c.msg, skill |-> <<>>]
        ELSE [status |-> "ok", msg |-> "",
              skill |-> PerfectModelSkill(forecast, m.value.name, c.value.name)]

\* section 4.4, persistence variant: at lag L the reference at the
\* initialization date against the reference L steps ahead
PersistenceSkill(forecast, control, metric) ==
    [k \in 1..Len(forecast.lead) |->
        LET L == forecast.lead[k]
            usable == {i \in 1..Len(forecast.init) :
                          /\ forecast.init[i] \in DOMAIN control
                          /\ forecast.init[i] + L \in DOMAIN control}
        IN  [num |-> SumOver(
                 [i \in usable |->
                     Dist(metric, control[forecast.init[i]],
                          control[forecast.init[i] + L])], usable),
             den |-> Cardinality(usable)]]

compute_persistence(forecast, control, metric) ==
    LET m == get_metric_class(metric, PM_METRICS)
    IN  IF m.status /= "ok"
        THEN [status |-> m.status, msg |-> m.msg, skill |-> <<>>]
        ELSE [status |-> "ok", msg |-> "",
              skill |-> PersistenceSkill(forecast, control, m.value.name)]

\* the lead-0 fixture: da['lead'] -= 1; da['init'] += 1
Lead0(forecast) ==
    [forecast EXCEPT
        !.lead = [k \in 1..Len(forecast.lead) |-> forecast.lead[k] - 1],
        !.init = [i \in 1..Len(forecast.init) |-> forecast.init[i] + 1]]

\* Inputs of the compute engine.
MaxLead == 2

ControlLen == 4

\* the first year of the control run: the base of the yearly grid
FirstYear == GridBase("years")[1]

ControlYears == FirstYear..(FirstYear + ControlLen - 1)

Controls == [ControlYears -> {0, 1, 2}]

InitAxes == {<<FirstYear>>, <<FirstYear, FirstYear + 1>>, <<FirstYear + 1>>}

LeadAxes == {[k \in 1..n |-> k] : n \in 1..MaxLead}

\* two initializations, a control member and two others
EnsembleData(nlead) == [1..2 -> [1..3 -> [1..nlead -> {0, 1}]]]

MetricNames == {Str("mse"), Str("mae"), Str("AnomCorr")}

ComparisonNames == {Str("m2c"), Str("e2c"), Str("test")}

(***************************************************************************)
(* The state machine.                                                      *)
(***************************************************************************)
Init ==
    /\ op = "idle"
    /\ arg = <<>>
    /\ post = <<>>
    /\ ret = <<>>

\* the caller is done with the result of the last call
Return ==
    /\ op /= "idle"
    /\ op' = "idle"
    /\ arg' = <<>>
    /\ post' = <<>>
    /\ ret' = <<>>

\* a call of convert_time_index followed by a second call on its result
DoConvert ==
    /\ op = "idle"
    /\ \E kind \in AxisKinds : \E vals \in AxisVals(kind) :
        LET xobj == [axis |-> [kind |-> kind, vals |-> vals], data |-> "tos"]
            r == convert_time_index(xobj)
        IN  /\ op' = "convert_time_index"
            /\ arg' = [xobj |-> xobj]
            /\ post' = [xobj |-> r.caller]
            /\ ret' = [first |-> r,
                       second |-> IF r.status = "ok"
                                  THEN convert_time_index(r.value)
                                  ELSE r]

DoGetMetric ==
    /\ op = "idle"
    /\ \E metric \in MetricArgs : \E list_ \in MetricLists :
        /\ op' = "get_metric_class"
        /\ arg' = [name |-> metric, list_ |-> list_]
        /\ post' = arg'
        /\ ret' = get_metric_class(metric, list_)

DoGetComparison ==
    /\ op = "idle"
    /\ \E comparison \in ComparisonArgs : \E list_ \in ComparisonLists :
        /\ op' = "get_comparison_class"
        /\ arg' = [name |-> comparison, list_ |-> list_]
        /\ post' = arg'
        /\ ret' = get_comparison_class(comparison, list_)

DoShiftArgs ==
    /\ op = "idle"
    /\ \E units \in LeadUnits : \E lead \in (-MaxLag)..MaxLag :
        /\ op' = "get_lead_cftime_shift_args"
        /\ arg' = [units |-> units, lead |-> lead]
        /\ post' = arg'
        /\ ret' = get_lead_cftime_shift_args(units, lead)

DoReduce ==
    /\ op = "idle"
    /\ \E units \in LeadUnits : \E nlags \in 0..MaxLag :
       \E ftime \in TimeAxes(units) : \E rtime \in TimeAxes(units) :
        LET forecast == [time |-> ftime, units |-> units]
            reference == [time |-> rtime]
            r == reduce_time_series(forecast, reference, nlags)
        IN  /\ op' = "reduce_time_series"
            /\ arg' = [forecast |-> forecast, reference |-> reference,
                       nlags |-> nlags]
            /\ post' = [forecast |-> r.caller_forecast,
                        reference |-> r.caller_reference, nlags |-> nlags]
            /\ ret' = r

DoAssignAttrs ==
    /\ op = "idle"
    /\ \E attrs \in DsAttrs : \E coords \in DsCoords :
       \E metadata_dict \in MetadataDicts : \E metric \in Metrics :
       \E comparison \in Comparisons : \E now \in Clock :
        LET skill == [attrs |-> EmptyDict]
            ds == [attrs |-> attrs, coords |-> coords]
            r == assign_attrs(skill, ds, "compute_perfect_model",
                              metadata_dict, metric, comparison, S("init"),
                              now)
        IN  /\ op' = "assign_attrs"
            /\ arg' = [skill |-> skill, ds |-> ds,
                       metadata_dict |-> metadata_dict, metric |-> metric,
                       comparison |-> comparison, now |-> now]
            /\ post' = [skill |-> r.caller_skill, ds |-> r.caller_ds,
                        metadata_dict |-> r.caller_metadata,
                        metric |-> metric, comparison |-> comparison,
                        now |-> now]
            /\ ret' = r

\* the provenance step run twice on equal arguments, at two clock readings
DoAssignAttrsTwice ==
    /\ op = "idle"
    /\ \E attrs \in DsAttrs : \E coords \in DsCoords :
       \E metadata_dict \in MetadataDicts : \E metric \in Metrics :
       \E comparison \in Comparisons : \E now1 \in Clock : \E now2 \in Clock :
        LET skill == [attrs |-> EmptyDict]
            ds == [attrs |-> attrs, coords |-> coords]
        IN  /\ op' = "assign_attrs_twice"
            /\ arg' = [skill |-> skill, ds |-> ds,
                       metadata_dict |-> metadata_dict, metric |-> metric,
                       comparison |-> comparison, now1 |-> now1,
                       now2 |-> now2]
            /\ post' = arg'
            /\ ret' = [first |-> assign_attrs(skill, ds, "compute_perfect_model",
                                              metadata_dict, metric, comparison,
                                              S("init"), now1),
                       second |-> assign_attrs(skill, ds, "compute_perfect_model",
                                               metadata_dict, metric, comparison,
                                               S("init"), now2)]

DoCopyCoords ==
    /\ op = "idle"
    /\ \E tf \in XrTypes : \E tt \in XrTypes :
       \E cf \in CoordSets : \E ct \in CoordSets :
        LET xro_from == [type |-> tf, coords |-> cf]
            xro_to == [type |-> tt, coords |-> ct]
            r == copy_coords_from_to(xro_from, xro_to)
        IN  /\ op' = "copy_coords_from_to"
            /\ arg' = [xro_from |-> xro_from, xro_to |-> xro_to]
            /\ post' = [xro_from |-> r.caller_from, xro_to |-> r.caller_to]
            /\ ret' = r

\* compute_perfect_model on a forecast and on its lead-0 relabelling
DoPerfectModel ==
    /\ op = "idle"
    /\ \E metric \in MetricNames : \E comparison \in ComparisonNames :
       \E data \in EnsembleData(1) :
        LET forecast == [init |-> <<FirstYear, FirstYear + 1>>,
                         lead |-> <<1>>, data |-> data]
        IN  /\ op' = "compute_perfect_model"
            /\ arg' = [forecast |-> forecast, metric |-> metric,
                       comparison |-> comparison]
            /\ post' = arg'
            /\ ret' = [lead1 |-> compute_perfect_model(forecast, metric,
                                                       comparison),
                       lead0 |-> compute_perfect_model(Lead0(forecast), metric,
                                                       comparison)]

\* compute_persistence on a forecast and on its lead-0 relabelling
DoPersistence ==
    /\ op = "idle"
    /\ \E metric \in MetricNames : \E control \in Controls :
       \E init \in InitAxes : \E lead \in LeadAxes :
        LET forecast == [init |-> init, lead |-> lead]
        IN  /\ op' = "compute_persistence"
            /\ arg' = [forecast |-> forecast, metric |-> metric,
                       control |-> control]
            /\ post' = arg'
            /\ ret' = [lead1 |-> compute_persistence(forecast, control, metric),
                       lead0 |-> compute_persistence(Lead0(forecast), control,
                                                     metric)]

Next ==
    \/ DoConvert
    \/ DoPerfectModel
    \/ DoPersistence
    \/ DoAssignAttrs
    \/ DoAssignAttrsTwice
    \/ DoCopyCoords
    \/ DoShiftArgs
    \/ DoReduce
    \/ DoGetMetric
    \/ DoGetComparison
    \/ Return

Spec == Init /\ [][Next]_vars

(***************************************************************************)
(* Properties of convert_time_index.                                       *)
(***************************************************************************)
\* C3: a calendar-aware axis comes back value for value with no warning, and
\* converting the result of any successful conversion again returns the same
\* axis with no warning.
C3_NoOpAndIdempotent ==
    op = "convert_time_index" =>
        /\ arg.xobj.axis.kind = "cftime" =>
              /\ ret.first.status = "ok"
              /\ ret.first.value.axis = arg.xobj.axis
              /\ ret.first.warnings = 0
        /\ ret.first.status = "ok" =>
              /\ ret.second.status = "ok"
              /\ ret.second.value.axis = ret.first.value.axis
              /\ ret.second.warnings = 0

\* a calendar-aware axis holding a noleap date and a midday date was converted
C3_Witness ==
    /\ op = "convert_time_index"
    /\ arg.xobj.axis.kind = "cftime"
    /\ Len(arg.xobj.axis.vals) = 2
    /\ arg.xobj.axis.vals[1].cal = "noleap"
    /\ arg.xobj.axis.vals[2].hh = 12
    /\ ret.second.status = "ok"

\* C4: a numeric axis becomes, entry by entry, January 1 of the year int(v_i),
\* with exactly one warning.
C4_NumericAxisToJanuaryFirst ==
    (op = "convert_time_index" /\ arg.xobj.axis.kind \in {"int", "float"}) =>
        /\ ret.first.status = "ok"
        /\ ret.first.warnings = 1
        /\ ret.first.value.axis.kind = "cftime"
        /\ Len(ret.first.value.axis.vals) = Len(arg.xobj.axis.vals)
        /\ \A i \in 1..Len(arg.xobj.axis.vals) :
              ret.first.value.axis.vals[i]
                  = CFDate(AxisInts(arg.xobj.axis)[i], 1, 1)

(***************************************************************************)
(* Properties of the lag alignment.                                        *)
(***************************************************************************)
\* C5: the offset table: years -> (lead, YS), months -> (lead, MS), weeks ->
\* (7 lead, D), days -> (lead, D), seasons -> (3 lead, MS), pentads ->
\* (5 lead, D); any other units string fails and returns no offset.
C5_OffsetTable ==
    op = "get_lead_cftime_shift_args" =>
        LET u == arg.units
            l == arg.lead
        IN  /\ u = "years" => ret = [status |-> "ok", n |-> l, freq |-> "YS"]
            /\ u = "months" => ret = [status |-> "ok", n |-> l, freq |-> "MS"]
            /\ u = "weeks" => ret = [status |-> "ok", n |-> 7 * l, freq |-> "D"]
            /\ u = "days" => ret = [status |-> "ok", n |-> l, freq |-> "D"]
            /\ u = "seasons" =>
                  ret = [status |-> "ok", n |-> 3 * l, freq |-> "MS"]
            /\ u = "pentads" =>
                  ret = [status |-> "ok", n |-> 5 * l, freq |-> "D"]
            /\ u \notin {"years", "months", "weeks", "days", "seasons",
                          "pentads"} =>
                  (ret.status = "ValueError" /\ ret.freq = "")

\* offsets were computed for a negative number of weeks
C5_Witness ==
    /\ op = "get_lead_cftime_shift_args"
    /\ arg.units = "weeks"
    /\ arg.lead = -2
    /\ ret.n = -14

\* the position of a time in an axis without repeated entries
PosIn(seq, t) == CHOOSE i \in 1..Len(seq) : seq[i] = t

\* seq keeps the relative order its entries have in whole
SameOrder(seq, whole) ==
    \A i, j \in 1..Len(seq) :
        i < j => PosIn(whole, seq[i]) < PosIn(whole, seq[j])

\* the window of the specification, from the arguments of a call
WindowLowerOf(a) ==
    MaxDate({MinDate(Range(a.forecast.time)), MinDate(Range(a.reference.time))})

WindowUpperOf(a) ==
    MinDate({MaxDate(Range(a.forecast.time)),
             Advance(MaxDate(Range(a.reference.time)), a.forecast.units,
                     -a.nlags)})

Reduced == op = "reduce_time_series" /\ ret.status = "ok"

\* C6: the forecast keeps exactly its times in [lower, upper], the reference
\* exactly its times >= lower, in their order; the retained reference is the
\* same for every lag.
C6_WindowTruncation ==
    Reduced =>
        /\ Range(ret.forecast.time) =
              {t \in Range(arg.forecast.time) :
                  DateLE(WindowLowerOf(arg), t) /\ DateLE(t, WindowUpperOf(arg))}
        /\ Range(ret.reference.time) =
              {r \in Range(arg.reference.time) : DateLE(WindowLowerOf(arg), r)}
        /\ SameOrder(ret.forecast.time, arg.forecast.time)
        /\ SameOrder(ret.reference.time, arg.reference.time)
        /\ Len(ret.forecast.time) = Cardinality(Range(ret.forecast.time))
        /\ Len(ret.reference.time) = Cardinality(Range(ret.reference.time))
        /\ \A l \in 0..MaxLag :
              reduce_time_series(arg.forecast, arg.reference, l).reference
                  = ret.reference

\* lag 1: the forecast lost its latest time to the shifted reference, the
\* reference its earliest time to the forecast, and a reference time above
\* the window was kept
C6_Witness ==
    /\ Reduced
    /\ arg.nlags = 1
    /\ Len(arg.forecast.time) = 2
    /\ Len(ret.forecast.time) = 1
    /\ Len(arg.reference.time) = 2
    /\ Len(ret.reference.time) = 1
    /\ ~DateLE(ret.reference.time[1], WindowUpperOf(arg))

\* every reference time but the latest is followed one lead unit later
GapFree(times, units) ==
    \A t \in Range(times) :
        t /= MaxDate(Range(times)) => Advance(t, units, 1) \in Range(times)

\* C7 as stated: every retained forecast time, advanced by the lag, is a
\* retained reference time.
C7_EveryForecastHasReference ==
    Reduced =>
        \A t \in Range(ret.forecast.time) :
            Advance(t, arg.forecast.units, arg.nlags)
                \in Range(ret.reference.time)

\* C7 amended: it holds when the reference times are consecutive steps of
\* the grid of the lead units that the forecast times lie on.
C7_ForecastHasReferenceOnGapFreeGrid ==
    (Reduced /\ GapFree(arg.reference.time, arg.forecast.units)) =>
        \A t \in Range(ret.forecast.time) :
            Advance(t, arg.forecast.units, arg.nlags)
                \in Range(ret.reference.time)

\* a gap-free reference, lag 1, and a forecast that lost its latest time to
\* the shifted reference while its earliest time kept a reference value
C7_Witness ==
    /\ Reduced
    /\ GapFree(arg.reference.time, arg.forecast.units)
    /\ arg.nlags = 1
    /\ Len(arg.reference.time) = 2
    /\ Len(arg.forecast.time) = 2
    /\ Len(ret.forecast.time) = 1
    /\ Advance(ret.forecast.time[1], arg.forecast.units, 1)
          \in Range(ret.reference.time)

\* C8 as stated: every retained reference time is reached by some retained
\* forecast time advanced by the lag.
C8_EveryReferenceHasForecast ==
    Reduced =>
        \A r \in Range(ret.reference.time) :
            \E t \in Range(ret.forecast.time) :
                Advance(t, arg.forecast.units, arg.nlags) = r

\* C8 amended: with forecast times that are consecutive steps of the grid,
\* a retained reference time is reached exactly when it lies in
\* [lower + lag, upper + lag].
C8_ReferenceReachedInsideShiftedWindow ==
    (Reduced /\ GapFree(arg.forecast.time, arg.forecast.units)) =>
        \A r \in Range(ret.reference.time) :
            (\E t \in Range(ret.forecast.time) :
                Advance(t, arg.forecast.units, arg.nlags) = r)
            <=> (/\ DateLE(WindowLowerOf(arg),
                           Advance(r, arg.forecast.units, -arg.nlags))
                 /\ DateLE(Advance(r, arg.forecast.units, -arg.nlags),
                           WindowUpperOf(arg)))

\* lag 1: one retained reference time is reached and the earliest is not
C8_Witness ==
    /\ Reduced
    /\ GapFree(arg.forecast.time, arg.forecast.units)
    /\ arg.nlags = 1
    /\ Len(ret.reference.time) = 2
    /\ Len(ret.forecast.time) = 1
    /\ Advance(ret.forecast.time[1], arg.forecast.units, 1)
          \in Range(ret.reference.time)

(***************************************************************************)
(* Inputs stay as the caller passed them.                                  *)
(***************************************************************************)
\* C9: after convert_time_index, reduce_time_series, assign_attrs (ds and
\* metadata_dict) and copy_coords_from_to (xro_from and xro_to) return or
\* fail, the caller's objects hold what they held before the call.
C9_InputsNotMutated ==
    /\ op = "convert_time_index" => post.xobj = arg.xobj
    /\ op = "reduce_time_series" =>
          (post.forecast = arg.forecast /\ post.reference = arg.reference)
    /\ op = "assign_attrs" =>
          (post.ds = arg.ds /\ post.metadata_dict = arg.metadata_dict)
    /\ op = "copy_coords_from_to" =>
          (post.xro_from = arg.xro_from /\ post.xro_to = arg.xro_to)

C1_UnknownNameFailsAtMembership ==
    (/\ op \in {"get_metric_class", "get_comparison_class"}
     /\ arg.name.kind = "str"
     /\ arg.name \notin arg.list_) =>
        /\ ret.status = "KeyError"
        /\ ret.stage = "membership"
        /\ ret.msg = (IF op = "get_metric_class" THEN "Specify metric from"
                      ELSE "Specify comparison from")
        /\ ret.value.kind \notin {"metric", "comparison"}

\* C1, through compute_perfect_model: an unknown metric name, or an unknown
\* comparison name beside a known metric, stops the computation with the
\* same message, and no skill is produced.
C1_UnknownNameStopsCompute ==
    op = "compute_perfect_model" =>
        /\ arg.metric \notin PM_METRICS =>
              /\ ret.lead1.status = "KeyError"
              /\ ret.lead1.msg = "Specify metric from"
              /\ ret.lead1.skill = <<>>
        /\ (arg.metric \in PM_METRICS /\ arg.comparison \notin PM_COMPARISONS) =>
              /\ ret.lead1.status = "KeyError"
              /\ ret.lead1.msg = "Specify comparison from"
              /\ ret.lead1.skill = <<>>

\* C1: an unknown name is refused by the membership test with 'Specify
\* metric from' or 'Specify comparison from', at the resolvers and through
\* compute_perfect_model, and no descriptor or skill comes back.
C1_UnknownNameRefused ==
    C1_UnknownNameFailsAtMembership /\ C1_UnknownNameStopsCompute

\* an alias with a descriptor behind it, absent from a non-empty list, was
\* refused
C1_Witness ==
    /\ op = "get_metric_class"
    /\ arg.name = Str("pr")
    /\ Str("mse") \in arg.list_
    /\ arg.name \notin arg.list_
    /\ ret.status = "KeyError"

\* C2: for both resolvers, an input that is neither a string nor a
\* descriptor instance of that registry fails with the invalid-argument-type
\* error, whatever the list holds.
C2_NonStringFailsWithTypeError ==
    (\/ (op = "get_metric_class" /\ arg.name.kind \notin {"str", "metric"})
     \/ (op = "get_comparison_class"
            /\ arg.name.kind \notin {"str", "comparison"})) =>
        /\ ret.status = "ValueError"
        /\ ret.stage = "type"

(***************************************************************************)
(* Properties of assign_attrs.                                             *)
(***************************************************************************)
TwoRuns == op = "assign_attrs_twice"

Assigned == op = "assign_attrs" /\ ret.status = "ok"

\* the text of the exponents the model draws, as the claim prints them
ExponentText(p2) ==
    CASE p2 = 4 -> "2"
      [] p2 = 5 -> "2.5"
      [] p2 = 6 -> "3"
      [] OTHER -> "?"

\* the units the claim expects from the exponent and the forecast's units
\* alone; absent means no units attribute
UnitsByExponent(a) ==
    IF a.metric.p2 = 0 THEN [present |-> TRUE, v |-> S("None")]
    ELSE IF "units" \notin DOMAIN a.ds.attrs THEN [present |-> FALSE, v |-> PyNone]
    ELSE IF a.metric.p2 >= 4
    THEN [present |-> TRUE,
          v |-> S("(" \o a.ds.attrs["units"].s \o ")^"
                    \o ExponentText(a.metric.p2))]
    ELSE [present |-> TRUE, v |-> a.ds.attrs["units"]]

UnitsOf(attrs) ==
    IF "units" \in DOMAIN attrs THEN [present |-> TRUE, v |-> attrs["units"]]
    ELSE [present |-> FALSE, v |-> PyNone]

\* C12 as stated: the units of the result follow from the exponent p and the
\* forecast's units u alone: no unit u for p = 0, '(u)^p' for p >= 2, u for
\* any other p, with or without a units attribute on the forecast and
\* whatever metadata_dict holds.
C12_UnitsFollowExponent ==
    Assigned =>
        /\ arg.metric.p2 = 0 => UnitsOf(ret.value.attrs).v.s \in {"", "None"}
        /\ arg.metric.p2 >= 4 =>
              /\ UnitsOf(ret.value.attrs).present
              /\ "units" \in DOMAIN arg.ds.attrs =>
                    UnitsOf(ret.value.attrs) = UnitsByExponent(arg)
        /\ arg.metric.p2 \in 1..3 =>
              UnitsOf(ret.value.attrs) = UnitsOf(arg.ds.attrs)

\* C12 amended: when metadata_dict has no 'units' key the units are the text
\* 'None' for p = 0, '(u)^p' for p >= 2 if the forecast carried units u (no
\* units attribute if it carried none), and the forecast's own otherwise;
\* a 'units' key of metadata_dict, None included, replaces them.
C12_UnitsFollowExponentUnlessMetadata ==
    Assigned =>
        UnitsOf(ret.value.attrs) =
            (IF "units" \in DOMAIN arg.metadata_dict.d
             THEN [present |-> TRUE, v |-> arg.metadata_dict.d["units"]]
             ELSE UnitsByExponent(arg))

\* exponent 2.5 on a forecast in degC, no units in the metadata
C12_Witness ==
    /\ Assigned
    /\ arg.metric.p2 = 5
    /\ "units" \in DOMAIN arg.ds.attrs
    /\ "units" \notin DOMAIN arg.metadata_dict.d
    /\ ret.value.attrs["units"] = S("(degC)^2.5")

\* C13: with metadata_dict left at its default None and metric, comparison
\* and dim given, the call completes and the skill carries the forecast's
\* attributes, the metric and comparison names, dim, the counts and the
\* creation timestamp.
C13_DefaultMetadataAccepted ==
    (/\ op = "assign_attrs"
     /\ arg.metadata_dict.isnone
     /\ ~arg.metric.isnone
     /\ ~arg.comparison.isnone) =>
        /\ ret.status = "ok"
        /\ \A k \in DOMAIN arg.ds.attrs \ {"units"} :
              k \in DOMAIN ret.value.attrs /\ ret.value.attrs[k] = arg.ds.attrs[k]
        /\ {"metric", "comparison", "dim", "created"} \subseteq DOMAIN ret.value.attrs
        /\ ret.value.attrs["metric"] = S(arg.metric.name)
        /\ ret.value.attrs["comparison"] = S(arg.comparison.name)
        /\ "init" \in DOMAIN arg.ds.coords =>
              "number_of_initializations" \in DOMAIN ret.value.attrs
        /\ "member" \in DOMAIN arg.ds.coords =>
              "number_of_members" \in DOMAIN ret.value.attrs

====
